---------------------------- MODULE Spec2Model ----------------------------
(***************************************************************************)
(* A model of boost::movelib::unique_ptr (include/boost/move/unique_ptr.hpp)*)
(*                                                                         *)
(* The state is a small store of unique_ptr objects ("owners").  Each      *)
(* owner has the two members of unique_ptr_data: the stored pointer m_p    *)
(* and the stored deleter d.  Handles are integers, 0 being the value of   *)
(* pointer() (the null pointer); deleters are values of a stateful value   *)
(* type D whose move construction and move assignment copy the state.      *)
(* Every member function is one action; the functions they call (release,  *)
(* reset, the deleter's operator()) are operators over the store, composed *)
(* as the code composes them.                                              *)
(***************************************************************************)
EXTENDS Integers, Sequences, FiniteSets

(* ------------------------------ bounds -------------------------------- *)

NumOwners == 2

NumHandles == 2

NumDeleters == 2

\* Deleter invocations on one pointer are counted up to this number.
MaxDisposals == 2

(* ----------------------------- constants ------------------------------ *)

\* pointer(): the value-initialized stored pointer (null).
Empty == 0

\* D(): the value-initialized stored deleter.
DefaultDeleter == 1

Owners == 1..NumOwners

Handles == 1..NumHandles

Pointers == {Empty} \cup Handles

Deleters == 1..NumDeleters

\* Two deleters of the caller that call back into the owner they are
\* stored in while they run: one calls reset(), the other release().
ResetsOwner == NumDeleters + 1

ReleasesOwner == NumDeleters + 2

ReentrantDeleters == {ResetsOwner, ReleasesOwner}

VARIABLES
    live,   \* live[u]: u has been constructed and not yet destroyed
    m_p,    \* m_p[u]: unique_ptr_data::m_p of owner u
    d,      \* d[u]:   unique_ptr_data::d (the deleter) of owner u
    last,   \* the last member call: its arguments, its return value and
            \* the deleter invocations it made, in order
    xfer,   \* history of the last move construction while only the
            \* destructors of its two owners have run since
    conv,   \* the last conversion between two unique_ptr instantiations
            \* asked of the compile-time rules, and their answers
    hist    \* history of the pointers of a caller that supplies each
            \* pointer once: those supplied, those release() gave back,
            \* and how often a deleter was invoked on each

vars == <<live, m_p, d, last, xfer, conv, hist>>

ownerVars == <<live, m_p, d, last, xfer, hist>>

(* ------------------- the store and the called functions --------------- *)

\* The part of the state the member functions read and write, with the
\* trace of deleter invocations made so far by the running call.
Store == [m_p |-> m_p, d |-> d, calls |-> <<>>]

\* pointer release(): tmp = m_p; m_p = pointer(); return tmp;
release_keep(s, u) == [st |-> s, ret |-> s.m_p[u]]

release(s, u) ==
    [st |-> [s EXCEPT !.m_p[u] = Empty], ret |-> s.m_p[u]]

RECURSIVE invoke(_, _, _)

RECURSIVE reset(_, _, _)

\* m_data.deleter()(h) called from owner u: the deleter stored in u at that
\* moment is invoked on h; seen is what u.get() returns while it runs. A
\* deleter that calls back does so on u, with reset() or with release().
invoke(s, u, h) ==
    LET s1 == [s EXCEPT !.calls =
                   Append(@, [d |-> s.d[u], p |-> h, seen |-> s.m_p[u]])]
    IN  IF s.d[u] = ResetsOwner THEN reset(s1, u, Empty)
        ELSE IF s.d[u] = ReleasesOwner THEN release(s1, u).st
        ELSE s1

\* void reset(Pointer p): tmp = m_p; m_p = p; if(tmp) deleter()(tmp);
reset_no_dispose(s, u, p) == [s EXCEPT !.m_p[u] = p]

reset_clear_first(s, u, p) ==
    LET tmp == s.m_p[u]
        s0  == [s EXCEPT !.m_p[u] = Empty]
        s1  == IF tmp # Empty THEN invoke(s0, u, tmp) ELSE s0
    IN  [s1 EXCEPT !.m_p[u] = p]

reset_guarded(s, u, p) ==
    LET tmp == s.m_p[u]
        s1  == [s EXCEPT !.m_p[u] = p]
    IN  IF tmp # Empty /\ tmp # p THEN invoke(s1, u, tmp) ELSE s1

reset_dispose_first(s, u, p) ==
    LET tmp == s.m_p[u]
        s1  == IF tmp # Empty THEN invoke(s, u, tmp) ELSE s
    IN  [s1 EXCEPT !.m_p[u] = p]

reset(s, u, p) ==
    LET tmp == s.m_p[u]
        s1  == [s EXCEPT !.m_p[u] = p]
    IN  IF tmp # Empty THEN invoke(s1, u, tmp) ELSE s1

\* operator=(nullptr): reset(); and reset(): reset(pointer())
assign_null_release(s, u) == release(s, u).st

assign_null(s, u) == reset(s, u, Empty)

\* ~unique_ptr(): if(m_p) deleter()(m_p);
dtor_always(s, u) == invoke(s, u, s.m_p[u])

dtor(s, u) ==
    IF s.m_p[u] # Empty THEN invoke(s, u, s.m_p[u]) ELSE s

\* unique_ptr(unique_ptr&& u): m_data(u.release(), move(u.get_deleter()))
\* The new object is self; ret is the pointer u.release() returned.
move_ctor_copy(s, self, u) ==
    [st  |-> [s EXCEPT !.m_p[self] = s.m_p[u], !.d[self] = s.d[u]],
     ret |-> s.m_p[u]]

move_ctor(s, self, u) ==
    LET r == release(s, u)
    IN  [st  |-> [r.st EXCEPT !.m_p[self] = r.ret, !.d[self] = r.st.d[u]],
         ret |-> r.ret]

\* operator=(unique_ptr&& u): reset(u.release());
\*                            deleter() = move(u.get_deleter());
move_assign_deleter_first(s, self, u) ==
    LET s1 == [s EXCEPT !.d[self] = s.d[u]]
        r  == release(s1, u)
    IN  reset(r.st, self, r.ret)

move_assign_share(s, self, u) ==
    LET s1 == reset(s, self, s.m_p[u])
    IN  [s1 EXCEPT !.d[self] = s1.d[u]]

move_assign_get_first(s, self, u) ==
    LET s1 == reset(s, self, s.m_p[u])
        r  == release(s1, u)
    IN  [r.st EXCEPT !.d[self] = r.st.d[u]]

move_assign(s, self, u) ==
    LET r  == release(s, u)
        s1 == reset(r.st, self, r.ret)
    IN  [s1 EXCEPT !.d[self] = s1.d[u]]

\* swap(unique_ptr& u): swap(m_p, u.m_p); swap(deleter(), u.deleter());
swap_copy(s, self, u) ==
    [s EXCEPT !.m_p[self] = s.m_p[u], !.d[self] = s.d[u]]

swap_pointers_only(s, self, u) ==
    [s EXCEPT !.m_p[self] = s.m_p[u], !.m_p[u] = s.m_p[self]]

swap(s, self, u) ==
    LET s1 == [s  EXCEPT !.m_p = [@ EXCEPT ![self] = s.m_p[u],
                                           ![u]    = s.m_p[self]]]
    IN  [s1 EXCEPT !.d = [@ EXCEPT ![self] = s1.d[u],
                                   ![u]    = s1.d[self]]]

(* ----------------------- the conversion rule set ---------------------- *)

\* Template arguments.  An element type T of unique_ptr<T, D> is a class,
\* possibly const/volatile qualified, possibly an array of unknown bound
\* (T = X[]).  Derived derives publicly from Base; Other is unrelated.
Classes == {"Base", "Derived", "Other"}

CVs == SUBSET {"const", "volatile"}

ElementTypes == [cls : Classes, cv : CVs, arr : BOOLEAN]

\* A deleter type: default_delete of the owner's own element type, or one
\* of two function object types A and B, an rvalue of B being convertible
\* to A and not the reverse; each also as an lvalue reference type.
DeleterKinds == {"default_delete", "A", "B"}

DeleterTypes == [kind : DeleterKinds, ref : BOOLEAN]

DerivedFrom(c1, c2) == c1 = "Derived" /\ c2 = "Base"

\* pointer_type<T, D>::type for a deleter without a nested pointer type:
\* remove_extent<T>::type*, represented by its pointee.
pointer_type(T, D) == [cls |-> T.cls, cv |-> T.cv]

\* is_convertible<P1, P2> on object pointers: the implicit conversions are
\* the qualification conversion and the derived-to-base conversion.
is_convertible(P1, P2) ==
    /\ P1.cls = P2.cls \/ DerivedFrom(P1.cls, P2.cls)
    /\ P1.cv \subseteq P2.cv

\* get_cvelement<P>::type: remove_cv of the pointee.
get_cvelement(P) == P.cls

is_same_cvelement_and_convertible(P1, P2) ==
    LET same_cvless == get_cvelement(P1) = get_cvelement(P2)
    IN  same_cvless /\ is_convertible(P1, P2)

is_unique_ptr_convertible_no_array_rule(IsArray, FromPointer, ThisPointer) ==
    is_convertible(FromPointer, ThisPointer)

is_unique_ptr_convertible(IsArray, FromPointer, ThisPointer) ==
    IF IsArray
    THEN is_same_cvelement_and_convertible(FromPointer, ThisPointer)
    ELSE is_convertible(FromPointer, ThisPointer)

\* enable_def_del<U, T>: default_delete<U> converts to default_delete<T>.
enable_def_del(U, T) ==
    /\ T.arr = U.arr
    /\ is_unique_ptr_convertible(T.arr, [cls |-> U.cls, cv |-> U.cv],
                                        [cls |-> T.cls, cv |-> T.cv])

\* default_delete<T>::operator()(U* ptr):
\* is_array<T>::value ? delete [] p : delete p
default_delete_call_single(T) == "delete"

default_delete_call(T) == IF T.arr THEN "delete[]" ELSE "delete"

\* unique_moveconvert_assignable<T, D, U, E>, primary template and the
\* specialization for T[].
unique_moveconvert_assignable_any_mode(T, D, U, E) ==
    is_unique_ptr_convertible(T.arr, pointer_type(U, E), pointer_type(T, D))

unique_moveconvert_assignable(T, D, U, E) ==
    IF T.arr
    THEN U.arr /\ is_unique_ptr_convertible(TRUE, pointer_type(U, E),
                                                  pointer_type(T, D))
    ELSE ~ U.arr /\ is_unique_ptr_convertible(FALSE, pointer_type(U, E),
                                                     pointer_type(T, D))

\* enable_up_moveconv_assign<T, D, U, E>
enable_up_moveconv_assign(T, D, U, E) ==
    unique_moveconvert_assignable(T, D, U, E)

\* is_rvalue_convertible<E, D>: an rvalue of remove_reference<E>::type
\* converts to the value type D, for the owners unique_ptr<U, E> and
\* unique_ptr<T, D>.
is_rvalue_convertible(E, D, U, T) ==
    CASE E.kind = "default_delete" /\ D.kind = "default_delete"
             -> enable_def_del(U, T)
      [] E.kind = D.kind -> TRUE
      [] E.kind = "B" /\ D.kind = "A" -> TRUE
      [] OTHER -> FALSE

\* The type named by a deleter argument: default_delete<T> depends on the
\* owner's element type.
DeleterName(D, T) ==
    [kind |-> D.kind, ref |-> D.ref,
     arg  |-> IF D.kind = "default_delete" THEN << T >> ELSE << >>]

\* !defined(BOOST_NO_CXX11_RVALUE_REFERENCES): the compiler of this build
\* has rvalue references; otherwise the build uses move emulation.
HasRvalueReferences == conv.rvalue_refs

\* unique_deleter_is_initializable<D, E>: is_same<D, E> when D is a
\* reference type; otherwise is_rvalue_convertible<E, D> with rvalue
\* references, and the constant true under move emulation.
unique_deleter_is_initializable(D, E, U, T) ==
    IF D.ref
    THEN DeleterName(D, T) = DeleterName(E, U)
    ELSE IF HasRvalueReferences
         THEN is_rvalue_convertible(E, D, U, T)
         ELSE TRUE

\* enable_up_moveconv_constr<T, D, U, E>
enable_up_moveconv_constr(T, D, U, E) ==
    /\ unique_moveconvert_assignable(T, D, U, E)
    /\ unique_deleter_is_initializable(D, E, U, T)

(* ------------------------------ observers ----------------------------- *)

\* pointer get() const
get(u) == m_p[u]

\* operator explicit_bool_arg() const: m_p ? &bool_conversion::for_bool : 0,
\* used as a condition: true iff the member pointer returned is not null.
bool_inverted(u) == (IF m_p[u] # Empty THEN 0 ELSE 1) # 0

explicit_bool(u) == (IF m_p[u] # Empty THEN 1 ELSE 0) # 0

\* The free comparison operators between two unique_ptr.
op_eq(x, y) == get(x) = get(y)

op_ne(x, y) == get(x) # get(y)

op_lt(x, y) == get(x) < get(y)

op_le(x, y) == ~ op_lt(y, x)

op_gt_same_way(x, y) == op_lt(x, y)

op_gt(x, y) == op_lt(y, x)

op_ge(x, y) == ~ op_lt(x, y)

\* Comparisons with nullptr, in both argument orders.
op_eq_null(x) == ~ explicit_bool(x)

op_null_eq(x) == ~ explicit_bool(x)

op_ne_null(x) == ~ ~ explicit_bool(x)

op_null_ne(x) == ~ ~ explicit_bool(x)

op_lt_null(x) == get(x) < Empty

op_null_lt(x) == Empty < get(x)

op_gt_null_same_way(x) == get(x) < Empty

op_gt_null(x) == get(x) > Empty

op_null_gt(x) == Empty > get(x)

op_le_null(x) == ~ op_null_lt(x)

op_null_le(x) == ~ op_lt_null(x)

op_ge_null(x) == ~ op_lt_null(x)

op_null_ge(x) == ~ op_null_lt(x)

(* ------------------------------- actions ------------------------------ *)

Call(op, self, u, p, ret, calls) ==
    [op |-> op, self |-> self, u |-> u, p |-> p, ret |-> ret, calls |-> calls]

NoXfer == [on |-> FALSE, src |-> 1, dst |-> 1, h |-> Empty, n |-> 0]

\* Number of invocations of a deleter on h in a trace of invocations.
Count(calls, h) == Cardinality({i \in 1..Len(calls) : calls[i].p = h})

\* The history of a move construction: started by it, continued by the
\* destructors of its two owners, dropped by every other call.
XferStep ==
    xfer' = IF last'.op = "move_ctor"
            THEN [on |-> TRUE, src |-> last'.u, dst |-> last'.self,
                  h |-> last'.ret, n |-> Count(last'.calls, last'.ret)]
            ELSE IF xfer.on /\ last'.op = "dtor"
                            /\ last'.self \in {xfer.src, xfer.dst}
            THEN [xfer EXCEPT !.n = @ + Count(last'.calls, xfer.h)]
            ELSE NoXfer

PlainType == [cls |-> "Base", cv |-> {}, arr |-> FALSE]

PlainDeleter == [kind |-> "default_delete", ref |-> FALSE]

\* No conversion between instantiations is asked for.
NoConv == [asked |-> FALSE, rvalue_refs |-> TRUE,
           T |-> PlainType, D |-> PlainDeleter,
           U |-> PlainType, E |-> PlainDeleter,
           constr |-> FALSE, assign |-> FALSE, defdel |-> FALSE,
           form |-> "none"]

NoHist == [supplied |-> {}, released |-> {},
           disposed |-> [h \in Handles |-> 0]]

\* The history after a call: a pointer passed to a constructor or to reset
\* is supplied, a pointer returned by release is given back, and every
\* deleter invocation of the call is counted (up to MaxDisposals).
HistStep ==
    hist' = [supplied |-> hist.supplied \cup
                 (IF last'.op \in {"ctor", "ctor_deleter", "reset"}
                  THEN {last'.p} \ {Empty} ELSE {}),
             released |-> hist.released \cup
                 (IF last'.op = "release" THEN {last'.ret} \ {Empty} ELSE {}),
             disposed |-> [h \in Handles |->
                 IF hist.disposed[h] + Count(last'.calls, h) > MaxDisposals
                 THEN MaxDisposals
                 ELSE hist.disposed[h] + Count(last'.calls, h)]]

Init ==
    /\ live = [u \in Owners |-> FALSE]
    /\ m_p  = [u \in Owners |-> Empty]
    /\ d    = [u \in Owners |-> DefaultDeleter]
    /\ last = Call("none", 1, 1, Empty, Empty, <<>>)
    /\ xfer = NoXfer
    /\ hist = NoHist
    /\ conv = NoConv

\* unique_ptr() and unique_ptr(nullptr): m_data()
DefaultConstruct(self) ==
    /\ ~ live[self]
    /\ live' = [live EXCEPT ![self] = TRUE]
    /\ m_p'  = [m_p EXCEPT ![self] = Empty]
    /\ d'    = [d EXCEPT ![self] = DefaultDeleter]
    /\ last' = Call("default_ctor", self, self, Empty, Empty, <<>>)
    /\ XferStep

\* explicit unique_ptr(Pointer p): m_data(p)
Construct(self, p) ==
    /\ ~ live[self]
    /\ live' = [live EXCEPT ![self] = TRUE]
    /\ m_p'  = [m_p EXCEPT ![self] = p]
    /\ d'    = [d EXCEPT ![self] = DefaultDeleter]
    /\ last' = Call("ctor", self, self, p, Empty, <<>>)
    /\ XferStep

\* unique_ptr(Pointer p, deleter_arg d1): m_data(p, d1)
ConstructDeleter(self, p, d1) ==
    /\ ~ live[self]
    /\ live' = [live EXCEPT ![self] = TRUE]
    /\ m_p'  = [m_p EXCEPT ![self] = p]
    /\ d'    = [d EXCEPT ![self] = d1]
    /\ last' = Call("ctor_deleter", self, self, p, Empty, <<>>)
    /\ XferStep

\* unique_ptr(unique_ptr&& u): m_data(u.release(), move(u.get_deleter()))
MoveConstruct(self, u) ==
    /\ live[u] /\ ~ live[self]
    /\ LET r == move_ctor(Store, self, u)
       IN  /\ live' = [live EXCEPT ![self] = TRUE]
           /\ m_p'  = r.st.m_p
           /\ d'    = r.st.d
           /\ last' = Call("move_ctor", self, u, Empty, r.ret, r.st.calls)
    /\ XferStep

\* ~unique_ptr(); the storage of a destroyed owner is kept in a fixed state.
Destroy(self) ==
    /\ live[self]
    /\ LET s == dtor(Store, self)
       IN  /\ live' = [live EXCEPT ![self] = FALSE]
           /\ m_p'  = [s.m_p EXCEPT ![self] = Empty]
           /\ d'    = [s.d EXCEPT ![self] = DefaultDeleter]
           /\ last' = Call("dtor", self, self, Empty, Empty, s.calls)
    /\ XferStep

\* unique_ptr& operator=(unique_ptr&& u)
MoveAssign(self, u) ==
    /\ live[self] /\ live[u]
    /\ LET s == move_assign(Store, self, u)
       IN  /\ m_p'  = s.m_p
           /\ d'    = s.d
           /\ last' = Call("move_assign", self, u, Empty, Empty, s.calls)
    /\ UNCHANGED live
    /\ XferStep

\* unique_ptr& operator=(nullptr): reset()
AssignNull(self) ==
    /\ live[self]
    /\ LET s == assign_null(Store, self)
       IN  /\ m_p'  = s.m_p
           /\ d'    = s.d
           /\ last' = Call("assign_null", self, self, Empty, Empty, s.calls)
    /\ UNCHANGED live
    /\ XferStep

\* pointer release()
Release(self) ==
    /\ live[self]
    /\ LET r == release(Store, self)
       IN  /\ m_p'  = r.st.m_p
           /\ d'    = r.st.d
           /\ last' = Call("release", self, self, Empty, r.ret, r.st.calls)
    /\ UNCHANGED live
    /\ XferStep

\* void reset(Pointer p), and reset() as reset(pointer())
Reset(self, p) ==
    /\ live[self]
    /\ LET s == reset(Store, self, p)
       IN  /\ m_p'  = s.m_p
           /\ d'    = s.d
           /\ last' = Call("reset", self, self, p, Empty, s.calls)
    /\ UNCHANGED live
    /\ XferStep

\* void swap(unique_ptr& u)
Swap(self, u) ==
    /\ live[self] /\ live[u]
    /\ LET s == swap(Store, self, u)
       IN  /\ m_p'  = s.m_p
           /\ d'    = s.d
           /\ last' = Call("swap", self, u, Empty, Empty, s.calls)
    /\ UNCHANGED live
    /\ XferStep

OwnerNext ==
    \/ \E self \in Owners : DefaultConstruct(self)
    \/ \E self \in Owners, p \in Pointers : Construct(self, p)
    \/ \E self \in Owners, p \in Pointers, d1 \in Deleters :
           ConstructDeleter(self, p, d1)
    \/ \E self \in Owners, u \in Owners : MoveConstruct(self, u)
    \/ \E self \in Owners : Destroy(self)
    \/ \E self \in Owners, u \in Owners : MoveAssign(self, u)
    \/ \E self \in Owners : AssignNull(self)
    \/ \E self \in Owners : Release(self)
    \/ \E self \in Owners, p \in Pointers : Reset(self, p)
    \/ \E self \in Owners, u \in Owners : Swap(self, u)

Next == OwnerNext /\ UNCHANGED <<conv, hist>>

Spec == Init /\ [][Next]_vars

\* A caller that never hands the library a handle some live owner holds.
NotHeld(p) == p = Empty \/ \A x \in Owners : live[x] => m_p[x] # p

DisciplinedNext ==
    \/ \E self \in Owners : DefaultConstruct(self)
    \/ \E self \in Owners, p \in Pointers : NotHeld(p) /\ Construct(self, p)
    \/ \E self \in Owners, p \in Pointers, d1 \in Deleters :
           NotHeld(p) /\ ConstructDeleter(self, p, d1)
    \/ \E self \in Owners, u \in Owners : MoveConstruct(self, u)
    \/ \E self \in Owners : Destroy(self)
    \/ \E self \in Owners, u \in Owners : MoveAssign(self, u)
    \/ \E self \in Owners : AssignNull(self)
    \/ \E self \in Owners : Release(self)
    \/ \E self \in Owners, p \in Pointers : NotHeld(p) /\ Reset(self, p)
    \/ \E self \in Owners, u \in Owners : Swap(self, u)

NextDisciplined == DisciplinedNext /\ UNCHANGED <<conv, hist>>

SpecDisciplined == Init /\ [][NextDisciplined]_vars

\* A caller that supplies every pointer at most once, never move-assigns an
\* owner to itself, and whose deleters do not call back into the owner.
Fresh(p) == p = Empty \/ p \notin hist.supplied

FreshNext ==
    \/ \E self \in Owners : DefaultConstruct(self)
    \/ \E self \in Owners, p \in Pointers : Fresh(p) /\ Construct(self, p)
    \/ \E self \in Owners, p \in Pointers, d1 \in Deleters :
           Fresh(p) /\ ConstructDeleter(self, p, d1)
    \/ \E self \in Owners, u \in Owners : MoveConstruct(self, u)
    \/ \E self \in Owners : Destroy(self)
    \/ \E self \in Owners, u \in Owners : self # u /\ MoveAssign(self, u)
    \/ \E self \in Owners : AssignNull(self)
    \/ \E self \in Owners : Release(self)
    \/ \E self \in Owners, p \in Pointers : Fresh(p) /\ Reset(self, p)
    \/ \E self \in Owners, u \in Owners : Swap(self, u)

NextFresh == FreshNext /\ HistStep /\ UNCHANGED conv

SpecFresh == Init /\ [][NextFresh]_vars

\* A caller whose deleters, other than the default one, call back into
\* their owner.
ReentrantNext ==
    \/ \E self \in Owners : DefaultConstruct(self)
    \/ \E self \in Owners, p \in Pointers : Construct(self, p)
    \/ \E self \in Owners, p \in Pointers, d1 \in ReentrantDeleters :
           ConstructDeleter(self, p, d1)
    \/ \E self \in Owners, u \in Owners : MoveConstruct(self, u)
    \/ \E self \in Owners : Destroy(self)
    \/ \E self \in Owners, u \in Owners : MoveAssign(self, u)
    \/ \E self \in Owners : AssignNull(self)
    \/ \E self \in Owners : Release(self)
    \/ \E self \in Owners, p \in Pointers : Reset(self, p)
    \/ \E self \in Owners, u \in Owners : Swap(self, u)

NextReentrant == ReentrantNext /\ UNCHANGED <<conv, hist>>

SpecReentrant == Init /\ [][NextReentrant]_vars

\* A conversion to unique_ptr<T, D> from an rvalue unique_ptr<U, E> that
\* the program text asks for, before overload resolution.
Asks(T, D, U, E, rv) ==
    [asked |-> FALSE, rvalue_refs |-> rv, T |-> T, D |-> D, U |-> U, E |-> E,
     constr |-> FALSE, assign |-> FALSE, defdel |-> FALSE, form |-> "none"]

InitConv ==
    /\ live = [u \in Owners |-> FALSE]
    /\ m_p  = [u \in Owners |-> Empty]
    /\ d    = [u \in Owners |-> DefaultDeleter]
    /\ last = Call("none", 1, 1, Empty, Empty, <<>>)
    /\ xfer = NoXfer
    /\ hist = NoHist
    /\ \E T \in ElementTypes, U \in ElementTypes,
          D \in DeleterTypes, E \in DeleterTypes, rv \in BOOLEAN :
             conv = Asks(T, D, U, E, rv)

\* Overload resolution: the converting move constructor, the converting
\* move assignment and the converting constructor of default_delete take
\* part iff their enable_if condition holds; form is the delete expression
\* default_delete<T>::operator() evaluates.
Convert ==
    /\ ~ conv.asked
    /\ conv' = [conv EXCEPT
          !.asked  = TRUE,
          !.constr = enable_up_moveconv_constr(conv.T, conv.D, conv.U, conv.E),
          !.assign = enable_up_moveconv_assign(conv.T, conv.D, conv.U, conv.E),
          !.defdel = enable_def_del(conv.U, conv.T),
          !.form   = default_delete_call(conv.T)]
    /\ UNCHANGED ownerVars

NextConv == Convert

SpecConv == InitConv /\ [][NextConv]_vars


(* ------------------------------- claims ------------------------------- *)

\* The single deleter invocation a call makes on the non-empty pointer old
\* with the deleter dv while the owner holds now, and none when old is
\* empty.
DisposesOnce(dv, old, now) ==
    IF old # Empty THEN << [d |-> dv, p |-> old, seen |-> now] >> ELSE << >>

C1_Step ==
    /\ last'.op = "release" =>
          /\ last'.ret = m_p[last'.self]
          /\ m_p'[last'.self] = Empty
          /\ last'.calls = << >>
    /\ (last.op = "release" /\ last'.op = "dtor" /\ last'.self = last.self) =>
          last'.calls = << >>

\* C1: release() returns exactly the pointer the owner held immediately
\* before the call, leaves get() equal to the empty pointer, invokes no
\* deleter, and a destruction of the owner that follows invokes no deleter.
C1_Release == [][C1_Step]_vars

C1_Witness ==
    /\ last.op = "release"
    /\ last.ret # Empty
    /\ live[last.self] /\ get(last.self) = Empty

C2_Step ==
    last'.op = "reset" =>
       /\ m_p'[last'.self] = last'.p
       /\ last'.calls = DisposesOnce(d[last'.self], m_p[last'.self], last'.p)
       /\ Count(last'.calls, m_p[last'.self])
             = (IF m_p[last'.self] # Empty THEN 1 ELSE 0)

\* C2: after reset(h), get() = h, and the pointer held before the call has
\* had the owner's deleter invoked on it exactly once by that call when it
\* was non-empty, and not at all when it was empty.
C2_Reset == [][C2_Step]_vars

C2_Witness ==
    /\ last.op = "reset"
    /\ last.p # Empty
    /\ get(last.self) = last.p
    /\ Len(last.calls) = 1
    /\ last.calls[1].p # last.p

C3_Step ==
    last'.op = "move_ctor" =>
       /\ m_p'[last'.u] = Empty
       /\ m_p'[last'.self] = m_p[last'.u]
       /\ last'.ret = m_p[last'.u]
       /\ last'.calls = << >>

C3_Inv ==
    (xfer.on /\ xfer.h # Empty) =>
       /\ live[xfer.src] => get(xfer.src) = Empty
       /\ live[xfer.dst] => (get(xfer.dst) = xfer.h /\ xfer.n = 0)
       /\ ~ live[xfer.dst] => xfer.n = 1

\* C3: move construction of b from a leaves a empty and b holding a's
\* pointer and invokes no deleter; destroying b afterwards disposes the
\* pointer exactly once while a stays empty, and destroying both a and b
\* disposes it exactly once.
C3_MoveConstruct == [][C3_Step]_vars /\ []C3_Inv

C3_Witness ==
    /\ xfer.on /\ xfer.h # Empty
    /\ ~ live[xfer.src] /\ ~ live[xfer.dst]
    /\ xfer.n = 1

\* C4: with a caller that never supplies a pointer some live owner holds,
\* no two live owners hold the same non-empty pointer.
C4_SingleOwnership ==
    \A x \in Owners, y \in Owners :
        (x # y /\ live[x] /\ live[y] /\ get(x) # Empty) => get(x) # get(y)

C4_Witness ==
    /\ last.op = "swap" /\ last.self # last.u
    /\ live[last.self] /\ live[last.u]
    /\ get(last.self) # Empty /\ get(last.u) # Empty

C5_Step ==
    last'.op = "dtor" =>
       /\ last'.calls = DisposesOnce(d[last'.self], m_p[last'.self],
                                     m_p[last'.self])
       /\ Count(last'.calls, m_p[last'.self])
             = (IF m_p[last'.self] # Empty THEN 1 ELSE 0)
       /\ m_p[last'.self] = Empty => last'.calls = << >>

\* C5: destroying an owner whose pointer is non-empty invokes its deleter
\* on that pointer exactly once; destroying an empty owner invokes it zero
\* times.
C5_Destroy == [][C5_Step]_vars

C5_Witness ==
    /\ last.op = "dtor"
    /\ Len(last.calls) = 1
    /\ last.calls[1].p # Empty
    /\ last.calls[1].d # DefaultDeleter

C6_Step ==
    (last'.op = "move_assign" /\ last'.self # last'.u) =>
       /\ last'.calls = DisposesOnce(d[last'.self], m_p[last'.self],
                                     m_p[last'.u])
       /\ m_p'[last'.self] = m_p[last'.u]
       /\ m_p'[last'.u] = Empty
       /\ d'[last'.self] = d[last'.u]
       /\ m_p[last'.u] # Empty => Count(last'.calls, m_p[last'.u]) = 0

\* C6: b = move(a) for distinct owners disposes b's previous non-empty
\* pointer exactly once with the deleter b held before the assignment;
\* afterwards b holds a's previous pointer, a is empty, b's deleter has the
\* value of a's, and a's pointer was not disposed.
C6_MoveAssign == [][C6_Step]_vars

C6_Witness ==
    /\ last.op = "move_assign" /\ last.self # last.u
    /\ Len(last.calls) = 1
    /\ last.calls[1].d # d[last.self]
    /\ get(last.self) # Empty
    /\ get(last.u) = Empty

C7_Step ==
    last'.op = "swap" =>
       /\ m_p'[last'.self] = m_p[last'.u]
       /\ m_p'[last'.u] = m_p[last'.self]
       /\ d'[last'.self] = d[last'.u]
       /\ d'[last'.u] = d[last'.self]
       /\ last'.calls = << >>
       /\ \A x \in Owners \ {last'.self, last'.u} :
              m_p'[x] = m_p[x] /\ d'[x] = d[x]

C7_Inv ==
    \A x \in Owners, y \in Owners :
        (live[x] /\ live[y]) =>
            /\ swap(swap(Store, x, y), x, y) = Store
            /\ swap(swap(Store, x, y), y, x) = Store

\* C7: swap exchanges the pointers and the deleters of the two owners and
\* invokes no deleter; swapping the same pair twice restores both owners,
\* for every pair of owners, an owner swapped with itself included.
C7_Swap == [][C7_Step]_vars /\ []C7_Inv

C7_Witness ==
    /\ last.op = "swap" /\ last.self # last.u
    /\ get(last.self) # get(last.u)
    /\ d[last.self] # d[last.u]

\* C8: in every reachable state of a live owner, its boolean conversion is
\* true iff get() is not the empty pointer.
C8_BoolConversion ==
    \A u \in Owners : live[u] => (explicit_bool(u) <=> get(u) # Empty)

C8_Witness ==
    \E u \in Owners, v \in Owners :
        /\ live[u] /\ live[v]
        /\ explicit_bool(u) /\ ~ explicit_bool(v)
        /\ last.op = "move_assign"

\* C9: for all live owners a and b: a == b iff a.get() == b.get(),
\* a != b iff a.get() != b.get(), a < b iff a.get() < b.get(),
\* a <= b iff not (b < a), a > b iff b < a, a >= b iff not (a < b);
\* a < b and a == b are never both true.
C9_Comparison ==
    \A a \in Owners, b \in Owners :
        (live[a] /\ live[b]) =>
            /\ op_eq(a, b) <=> (get(a) = get(b))
            /\ op_ne(a, b) <=> (get(a) # get(b))
            /\ op_lt(a, b) <=> (get(a) < get(b))
            /\ op_le(a, b) <=> ~ op_lt(b, a)
            /\ op_gt(a, b) <=> op_lt(b, a)
            /\ op_ge(a, b) <=> ~ op_lt(a, b)
            /\ ~ (op_lt(a, b) /\ op_eq(a, b))

C9_Witness ==
    \E a \in Owners, b \in Owners :
        /\ live[a] /\ live[b]
        /\ get(a) # Empty /\ op_lt(a, b) /\ op_gt(b, a) /\ op_ne(a, b)

\* The two owners have the same disposal policy: the default policy of
\* each (by value), or one and the same deleter type.
SamePolicy ==
    /\ conv.D = conv.E
    /\ conv.D.kind = "default_delete" => ~ conv.D.ref

C10_SingleUpcast ==
    (/\ ~ conv.T.arr /\ ~ conv.U.arr
     /\ conv.U.cls = "Derived" /\ conv.T.cls = "Base"
     /\ conv.U.cv \subseteq conv.T.cv
     /\ SamePolicy) => conv.constr

C10_ArrayUpcast ==
    (/\ conv.T.arr /\ conv.U.arr
     /\ conv.U.cls = "Derived" /\ conv.T.cls = "Base") =>
        (~ conv.constr /\ ~ conv.assign)

C10_ArrayRule ==
    (conv.T.arr /\ (conv.constr \/ conv.assign)) =>
        /\ conv.U.arr
        /\ conv.U.cls = conv.T.cls
        /\ conv.U.cv \subseteq conv.T.cv

\* C10: an owner of a base-class single object is constructible from an
\* owner of a derived-class single object with the same deleter; an owner
\* of a base-class array is not constructible from an owner of a
\* derived-class array; in array mode a conversion is accepted only when
\* the element types are the same up to const/volatile and the source
\* pointer converts to the destination pointer (qualifiers added only).
C10_ElementCompatibility ==
    conv.asked => (C10_SingleUpcast /\ C10_ArrayUpcast /\ C10_ArrayRule)

C10_Witness ==
    /\ conv.asked
    /\ conv.T.arr /\ conv.U.arr
    /\ conv.U.cv = {} /\ conv.T.cv = {"const"}
    /\ conv.constr /\ conv.assign

\* C11: the default policy of an array-mode element type performs
\* delete[] and never delete; that of a single-object element type
\* performs delete and never delete[].
C11_DefaultDeleteForm ==
    conv.asked =>
        /\ conv.T.arr  => (conv.form = "delete[]" /\ conv.form # "delete")
        /\ ~ conv.T.arr => (conv.form = "delete" /\ conv.form # "delete[]")

C11_Witness ==
    /\ conv.asked
    /\ conv.T.arr /\ conv.T.cls = "Derived"
    /\ conv.form = "delete[]"

\* C12: the converting move constructor is enabled only if the element
\* gate holds and, when D is a reference type, E is the same type as D,
\* and when D is a value type, an rvalue of E is convertible to D; the
\* converting move assignment is gated by the element gate alone.
C12_PolicyGate ==
    conv.asked =>
        /\ conv.constr =>
              /\ unique_moveconvert_assignable(conv.T, conv.D, conv.U, conv.E)
              /\ conv.D.ref =>
                    DeleterName(conv.E, conv.U) = DeleterName(conv.D, conv.T)
              /\ ~ conv.D.ref =>
                    is_rvalue_convertible(conv.E, conv.D, conv.U, conv.T)
        /\ conv.assign <=>
              unique_moveconvert_assignable(conv.T, conv.D, conv.U, conv.E)

C13_Step ==
    last'.op = "assign_null" =>
       /\ last'.calls = DisposesOnce(d[last'.self], m_p[last'.self], Empty)
       /\ Count(last'.calls, m_p[last'.self])
             = (IF m_p[last'.self] # Empty THEN 1 ELSE 0)
       /\ m_p'[last'.self] = Empty
       /\ d' = d
       /\ LET s == reset(Store, last'.self, Empty)
          IN  m_p' = s.m_p /\ d' = s.d /\ last'.calls = s.calls

\* C13: assigning nullptr has exactly the effect of reset(): a non-empty
\* pointer held before is disposed exactly once, get() becomes empty and
\* the deleter is unchanged; on an empty owner no deleter is invoked.
C13_AssignNull == [][C13_Step]_vars

C13_Witness ==
    /\ last.op = "assign_null"
    /\ Len(last.calls) = 1
    /\ last.calls[1].d # DefaultDeleter
    /\ get(last.self) = Empty
    /\ d[last.self] = last.calls[1].d

C14_Step ==
    (last'.op = "reset" /\ m_p[last'.self] # Empty) =>
       /\ Len(last'.calls) = 1
       /\ last'.calls[1].p = m_p[last'.self]
       /\ last'.calls[1].seen = last'.p
       /\ last'.p # m_p[last'.self] => last'.calls[1].seen # last'.calls[1].p

\* C14: inside reset(p) the new pointer is stored before the deleter is
\* invoked on the old one: while the deleter runs get() returns p, and
\* never the pointer being disposed unless p is that pointer.
C14_ResetOrder == [][C14_Step]_vars

C14_Witness ==
    /\ last.op = "reset"
    /\ last.p # Empty
    /\ Len(last.calls) = 1
    /\ last.calls[1].seen = last.p
    /\ last.calls[1].p # last.p

\* C15: comparisons with nullptr agree with comparing get() to the empty
\* pointer: == and != test emptiness in both argument orders, < compares
\* get() with the empty pointer, x > nullptr equals nullptr < x and
\* nullptr > x equals x < nullptr, <= and >= are the negations of the
\* opposite strict comparison.
C15_NullComparison ==
    \A x \in Owners :
        live[x] =>
            /\ op_eq_null(x) <=> (get(x) = Empty)
            /\ op_null_eq(x) <=> (get(x) = Empty)
            /\ op_ne_null(x) <=> (get(x) # Empty)
            /\ op_null_ne(x) <=> (get(x) # Empty)
            /\ op_lt_null(x) <=> (get(x) < Empty)
            /\ op_null_lt(x) <=> (Empty < get(x))
            /\ op_gt_null(x) <=> op_null_lt(x)
            /\ op_null_gt(x) <=> op_lt_null(x)
            /\ op_le_null(x) <=> ~ op_null_lt(x)
            /\ op_ge_null(x) <=> ~ op_lt_null(x)

C15_Witness ==
    \E x \in Owners, y \in Owners :
        /\ live[x] /\ live[y]
        /\ get(x) # Empty /\ op_gt_null(x) /\ op_ne_null(x) /\ ~ op_le_null(x)
        /\ get(y) = Empty /\ op_null_eq(y) /\ op_ge_null(y) /\ ~ op_null_lt(y)

\* C16: a converting move construction, a converting move assignment or a
\* default_delete conversion from element type U to element type T is
\* enabled only when U is an array type exactly when T is one.
C16_ArrayModeAgreement ==
    (conv.asked /\ (conv.constr \/ conv.assign \/ conv.defdel)) =>
        (conv.U.arr <=> conv.T.arr)

C16_Witness ==
    /\ conv.asked
    /\ conv.T.arr /\ conv.U.arr
    /\ conv.T # conv.U
    /\ conv.constr /\ conv.assign /\ conv.defdel

\* C17: when the caller supplies every pointer once, move-assigns only
\* between distinct owners and the deleters do not call back, then once all
\* owners are destroyed every pointer that was supplied and not given back
\* by release has had a deleter invoked on it exactly once, and every
\* pointer given back by release never.
C17_ExactlyOnce ==
    (\A u \in Owners : ~ live[u]) =>
        \A h \in Handles :
            /\ (h \in hist.supplied /\ h \notin hist.released)
                   => hist.disposed[h] = 1
            /\ h \in hist.released => hist.disposed[h] = 0

C17_Witness ==
    /\ \A u \in Owners : ~ live[u]
    /\ last.op = "dtor"
    /\ hist.released # {}
    /\ \E h \in hist.supplied \ hist.released : hist.disposed[h] = 1

C18_Step ==
    (last'.op = "move_assign" /\ last'.self = last'.u) =>
       /\ last'.calls = << >>
       /\ m_p' = m_p

\* C18: move-assigning an owner to itself invokes no deleter and leaves the
\* owner holding the pointer it held before.
C18_SelfMoveAssign == [][C18_Step]_vars

C18_Witness ==
    /\ last.op = "move_assign"
    /\ last.self = last.u
    /\ m_p[last.self] # Empty
    /\ last.calls = << >>

\* reset(h) on an owner already holding the non-empty h.
C19_SelfReset ==
    /\ last'.op = "reset"
    /\ last'.p # Empty
    /\ last'.p = m_p[last'.self]

\* The state right after such a reset, as the call record shows it.
C19_AfterSelfReset ==
    /\ last.op = "reset"
    /\ last.p # Empty
    /\ Len(last.calls) = 1
    /\ last.calls[1].p = last.p

C19_Step ==
    /\ C19_SelfReset =>
          /\ last'.calls = DisposesOnce(d[last'.self], last'.p, last'.p)
          /\ m_p'[last'.self] = last'.p
    /\ (/\ C19_AfterSelfReset
        /\ last'.op \in {"dtor", "reset"}
        /\ last'.self = last.self) =>
          /\ m_p[last.self] = last.p
          /\ Count(last'.calls, last.p) = 1

\* C19: reset(h) on an owner that holds the non-empty h invokes the deleter
\* on h and leaves the owner holding h; the destructor, or the next reset,
\* of that owner then invokes the deleter on h a second time.
C19_SelfResetDisposesTwice == [][C19_Step]_vars

C19_Witness ==
    /\ C19_AfterSelfReset
    /\ live[last.self]
    /\ m_p[last.self] = last.p
    /\ last.calls[1].seen = last.p

C20_AnyPointerStep ==
    (/\ last'.op = "reset"
     /\ d[last'.self] \in ReentrantDeleters
     /\ m_p[last'.self] # Empty) =>
        LET old == m_p[last'.self]
            c   == last'.calls
        IN  /\ Len(c) >= 1
            /\ c[1].p = old
            /\ Count(c, old) = 1
            /\ \A i \in 2..Len(c) : c[i].p = last'.p
            /\ Count(c, last'.p) <= 1

\* C20 as stated, for every p: when the deleter invoked by reset(p) on the
\* old pointer calls reset() or release() on the same owner, the old
\* pointer is not passed to the deleter a second time, the nested call acts
\* on p only, and each of the old pointer and p is disposed at most once.
C20_ReentrantResetAnyPointer == [][C20_AnyPointerStep]_vars

C20_Step ==
    (/\ last'.op = "reset"
     /\ d[last'.self] \in ReentrantDeleters
     /\ m_p[last'.self] # Empty
     /\ last'.p # m_p[last'.self]) =>
        LET old == m_p[last'.self]
            c   == last'.calls
        IN  /\ Len(c) >= 1
            /\ c[1].p = old
            /\ c[1].seen = last'.p
            /\ Count(c, old) = 1
            /\ \A i \in 2..Len(c) : c[i].p = last'.p /\ last'.p # Empty
            /\ Count(c, last'.p) <= 1
            /\ (d[last'.self] = ResetsOwner /\ last'.p # Empty)
                   => Count(c, last'.p) = 1
            /\ d[last'.self] = ReleasesOwner => Len(c) = 1
            /\ m_p'[last'.self] = Empty

\* C20, for p other than the pointer held: when the deleter invoked by
\* reset(p) on the old pointer calls reset() or release() on the same
\* owner, the old pointer is not passed to the deleter again: the nested
\* call acts on p only, and in the whole reset the deleter is invoked once
\* on the old pointer and at most once on p.
C20_ReentrantReset == [][C20_Step]_vars

C20_Witness ==
    /\ last.op = "reset"
    /\ Len(last.calls) = 2
    /\ last.calls[1].d = ResetsOwner
    /\ last.calls[1].p # last.calls[2].p
    /\ last.calls[1].seen = last.calls[2].p
    /\ m_p[last.self] = Empty

=============================================================================
